---- MODULE Spec2Model ----
(***************************************************************************)
(* A model of Detox() of CrowdDetox.cpp: the legitimacy marker             *)
(* (FIND_LEGIT_ITEMS_VISITOR), the pruner (PRUNE_ITEMS_VISITOR) with its   *)
(* goto-label relocation, and the variable finalizer.                      *)
(*                                                                         *)
(* The ctree is a function from item identities (the C++ addresses) to the *)
(* fields the code reads and writes.  The Hex-Rays primitives the code     *)
(* calls are modelled by their SDK contract:                               *)
(*   apply_to      pre-order walk; a visit returning non-zero stops it,    *)
(*                 prune_now() skips the children of the visited item      *)
(*   find_parent_of  search from the function body, NULL when not found    *)
(*   cblock_t::erase unlinks and frees one child of a block                *)
(*   cinsn_t::cleanup "deletes all children and sets the item type to      *)
(*                 cit_empty" (ea and label_num are not touched)           *)
(*   cinsn_t::replace_by "the statement pointed by r is moved to this      *)
(*                 statement", r is deleted after being copied             *)
(***************************************************************************)
EXTENDS Integers, Sequences, FiniteSets, TLC

VARIABLES
    pc,                           \* position inside Detox()
    run,                          \* number of the Detox() invocation
    ctree,                        \* pFunction->body: item -> fields
    lvars,                        \* pFunction->get_lvars()
    fInitialized,                 \* FIND_LEGIT_ITEMS_VISITOR
    afVariableIsLegit,
    vectorLegitItems,
    vectorDescendantsMarkedLegit,
    fNewLegitItemFound,
    visitingMode,                 \* PRUNE_ITEMS_VISITOR
    fPruned,
    fGotoCleaned,
    nOldLabelNumber,
    nNewLabelNumber,
    pItem,                        \* the statement visit_item is cleaning up
    hist                          \* the function as passed to this
                                  \* invocation and the passes run so far

vars == <<pc, run, ctree, lvars, fInitialized, afVariableIsLegit,
          vectorLegitItems, vectorDescendantsMarkedLegit, fNewLegitItemFound,
          visitingMode, fPruned, fGotoCleaned, nOldLabelNumber,
          nNewLabelNumber, pItem, hist>>

----------------------------------------------------------------------------
(* Bounds of the explored inputs *)

\* statements in the function body block
MaxStmts == 3
\* statements in a nested block
MaxInner == 2
\* goto label numbers are 1..MaxLabel
MaxLabel == 2
\* consecutive Detox() invocations on one function
MaxRuns == 2

NULL == 0
NoLabel == 0 - 1

----------------------------------------------------------------------------
(* ctree items *)

\* "freed" marks the memory of a deleted item
StatementOps == {"cit_block", "cit_if", "cit_for", "cit_while", "cit_do",
                 "cit_return", "cit_goto", "cit_break", "cit_continue",
                 "cit_expr", "cit_empty", "cit_asm", "cit_switch"}

ExpressionOps == {"cot_call", "cot_helper", "cot_var", "cot_obj",
                  "cot_empty", "cot_num", "cot_asg"}

is_expr(op) == op \in ExpressionOps

Items == DOMAIN ctree

body == 1

RECURSIVE SubtreeSeqOf(_, _)
\* the items apply_to(item) visits when no visit stops or prunes the walk
SubtreeSeqOf(t, item) ==
    LET RECURSIVE Cat(_, _)
        Cat(ks, i) == IF i > Len(ks) THEN <<>>
                      ELSE SubtreeSeqOf(t, ks[i]) \o Cat(ks, i + 1)
    IN  <<item>> \o Cat(t[item].kids, 1)

Range(s) == {s[i] : i \in DOMAIN s}

SubtreeOf(t, item) == Range(SubtreeSeqOf(t, item))

\* the items still linked under the function body
InTree(t) == SubtreeOf(t, body)

\* cfunc_t::body.find_parent_of: freed items are linked nowhere, so the item
\* holding the argument among its children is the one the search from the
\* body finds
find_parent_of(t, item) ==
    LET holders == {p \in DOMAIN t : \E i \in DOMAIN t[p].kids :
                                        t[p].kids[i] = item}
    IN  IF holders = {} THEN NULL ELSE CHOOSE p \in holders : TRUE

\* the memory of the items is released: nothing links them any more
Free(t, gone) ==
    [n \in DOMAIN t |->
        IF n \in gone THEN [t[n] EXCEPT !.op = "freed", !.kids = <<>>]
        ELSE t[n]]

----------------------------------------------------------------------------
(* FIND_LEGIT_ITEMS_VISITOR *)

aszNonLegitHelpers ==
    {"__ROL__", "__ROL1__", "__ROL2__", "__ROL4__", "__ROL8__",
     "__ROR1__", "__ROR2__", "__ROR4__", "__ROR8__",
     "LOBYTE", "LOWORD", "LODWORD", "HIBYTE", "HIWORD", "HIDWORD",
     "BYTEn", "WORDn",
     "BYTE1", "BYTE2", "BYTE3", "BYTE4", "BYTE5", "BYTE6", "BYTE7", "BYTE8",
     "BYTE9", "BYTE10", "BYTE11", "BYTE12", "BYTE13", "BYTE14", "BYTE15",
     "WORD1", "WORD2", "WORD3", "WORD4", "WORD5", "WORD6", "WORD7",
     "SLOBYTE", "SLOWORD", "SLODWORD", "SHIBYTE", "SHIWORD", "SHIDWORD",
     "SBYTEn", "SWORDn",
     "SBYTE1", "SBYTE2", "SBYTE3", "SBYTE4", "SBYTE5", "SBYTE6", "SBYTE7",
     "SBYTE8", "SBYTE9", "SBYTE10", "SBYTE11", "SBYTE12", "SBYTE13",
     "SBYTE14", "SBYTE15",
     "SWORD1", "SWORD2", "SWORD3", "SWORD4", "SWORD5", "SWORD6", "SWORD7",
     "__CFSHL__", "__CFSHR__", "__CFADD__", "__CFSUB__", "__OFADD__",
     "__OFSUB__", "__RCL__", "__RCR__", "__MKCRCL__", "__MKCRCR__",
     "__SETP__", "__MKCSHL__", "__MKCSHR__", "__SETS__", "__ROR__"}

\* the colour tags print1 wraps around a name
COLOR_ON == "\\1"
COLOR_OFF == "\\2"

\* cexpr_t::print1 of a helper: the tagged name, nothing when it has no name
print1(name) == IF name = "" THEN <<>> ELSE <<COLOR_ON, name, COLOR_OFF>>

\* a tag_remove that leaves the colour tags in the string
tag_remove_KeepsTags(s) == s

tag_remove(s) == SelectSeq(s, LAMBDA c : c \notin {COLOR_ON, COLOR_OFF})

IsLegitimateCall(t, pExpression) ==
    IF t[pExpression].op # "cot_call" THEN FALSE
    ELSE LET pCalledFunction == t[pExpression].kids[1]
             szFunctionName == print1(t[pCalledFunction].helper)
         IN  IF t[pCalledFunction].op # "cot_helper" THEN TRUE
             ELSE IF Len(szFunctionName) = 0 THEN FALSE
             ELSE \A i \in aszNonLegitHelpers :
                      tag_remove(szFunctionName) # <<i>>

\* print_type_to_one_line into szType[16]: T_NORMAL when the name fits
szTypeSize == 16

StrLen(name) ==
    CASE name = "int" -> 3
      [] name = "CPPEH_RECORD" -> 12
      [] name = "struct _EXCEPTION_REGISTRATION_RECORD" -> 37
      [] OTHER -> 1

print_type_is_normal(name) == StrLen(name) < szTypeSize

\* The state the marker threads through a traversal
Marker(legit, desc, bitmap, found) ==
    [legit |-> legit, desc |-> desc, bitmap |-> bitmap, found |-> found]

\* the descendant marking with fNewLegitItemFound set outside the has() test
MarkDescendantsLegit_AlwaysFound(t, m, root) ==
    LET fresh == SubtreeOf(t, root) \ m.desc
    IN  Marker(m.legit \cup fresh,
               m.desc \cup fresh,
               [i \in DOMAIN m.bitmap |->
                   m.bitmap[i] \/ \E n \in fresh : /\ t[n].op = "cot_var"
                                                   /\ t[n].v_idx = i],
               m.found \/ fresh # {})

\* apply_to(root) with fMarkingDescendantsLegit set (lines 316-355): every
\* item of the subtree not yet in vectorDescendantsMarkedLegit is marked
MarkDescendantsLegit(t, m, root) ==
    LET fresh == SubtreeOf(t, root) \ m.desc
    IN  Marker(m.legit \cup fresh,
               m.desc \cup fresh,
               [i \in DOMAIN m.bitmap |->
                   m.bitmap[i] \/ \E n \in fresh : /\ t[n].op = "cot_var"
                                                   /\ t[n].v_idx = i],
               m.found \/ fresh \ m.legit # {})

\* a flood that stores the bitmap anew, with the entries of its own variables
MarkIfNew_StoresBitmap(t, m, root) ==
    IF root \in m.desc THEN m
    ELSE LET r == MarkDescendantsLegit(t, m, root)
         IN  Marker(r.legit, r.desc,
                    [i \in DOMAIN m.bitmap |->
                        \E n \in SubtreeOf(t, root) \ m.desc :
                            t[n].op = "cot_var" /\ t[n].v_idx = i],
                    r.found)

\* lines 384-391, 395-441 and 498-516: the subtree is marked by a nested
\* traversal unless its root is in vectorDescendantsMarkedLegit
MarkIfNew(t, m, root) ==
    IF root \in m.desc THEN m ELSE MarkDescendantsLegit(t, m, root)

\* a switch of lines 368-382 without the case cit_do
GoverningExpression_NoDo(t, item) ==
    CASE t[item].op = "cit_if" -> t[item].kids[1]
      [] t[item].op = "cit_for" -> t[item].kids[2]
      [] t[item].op = "cit_while" -> t[item].kids[1]
      [] t[item].op = "cit_return" -> t[item].kids[1]
      [] OTHER -> NULL

\* the governing expression of an if/for/while/do/return (lines 367-382)
GoverningExpression(t, item) ==
    CASE t[item].op = "cit_if" -> t[item].kids[1]
      [] t[item].op = "cit_for" -> t[item].kids[2]
      [] t[item].op = "cit_while" -> t[item].kids[1]
      [] t[item].op = "cit_do" -> t[item].kids[2]
      [] t[item].op = "cit_return" -> t[item].kids[1]
      [] OTHER -> NULL

\* lines 357-445: an item that is already legitimate
VisitLegitItem(t, m, item) ==
    LET pExpression == GoverningExpression(t, item)
    IN  IF pExpression = NULL THEN m
        ELSE IF pExpression \in m.desc THEN m
        ELSE LET m1 == MarkDescendantsLegit(t, m, pExpression)
             IN  IF t[item].op = "cit_for"
                 THEN MarkIfNew(t, MarkIfNew(t, m1, t[item].kids[1]),
                                t[item].kids[3])
                 ELSE m1

\* a candidate test without cot_obj
IsCandidate_NoObj(t, lv, m, item) ==
    IF t[item].op = "cot_var"
    THEN \/ m.bitmap[t[item].v_idx]
         \/ /\ print_type_is_normal(lv[t[item].v_idx].type)
            /\ lv[t[item].v_idx].type = "CPPEH_RECORD"
    ELSE ~ ( \/ ~ ( \/ (t[item].op = "cot_call" /\ IsLegitimateCall(t, item))
                    \/ t[item].op = "cit_goto"
                    \/ t[item].op = "cit_break"
                    \/ t[item].op = "cit_continue"
                    \/ t[item].op = "cit_return" )
             \/ t[item].op = "cit_asm" )

\* lines 447-481: does the item start an ancestor walk
IsCandidate(t, lv, m, item) ==
    IF t[item].op = "cot_var"
    THEN \/ m.bitmap[t[item].v_idx]
         \/ /\ print_type_is_normal(lv[t[item].v_idx].type)
            /\ lv[t[item].v_idx].type = "CPPEH_RECORD"
    ELSE ~ ( \/ ~ ( \/ t[item].op = "cot_obj"
                    \/ (t[item].op = "cot_call" /\ IsLegitimateCall(t, item))
                    \/ t[item].op = "cit_goto"
                    \/ t[item].op = "cit_break"
                    \/ t[item].op = "cit_continue"
                    \/ t[item].op = "cit_return" )
             \/ t[item].op = "cit_asm" )

\* an ancestor walk that does not flood-mark expression statements
FloodsOnWalk_NoExpr(t, item) ==
    \/ (t[item].op = "cot_call" /\ IsLegitimateCall(t, item))
    \/ t[item].op = "cit_return"

\* lines 498-501: the ancestors whose subtree the walk flood-marks
FloodsOnWalk(t, item) ==
    \/ t[item].op = "cit_expr"
    \/ (t[item].op = "cot_call" /\ IsLegitimateCall(t, item))
    \/ t[item].op = "cit_return"

RECURSIVE MarkAncestors(_, _, _)
\* lines 483-520: the walk from the candidate to the root
MarkAncestors(t, m, pCurrentItem) ==
    IF pCurrentItem = NULL THEN m
    ELSE LET m1 == Marker(m.legit \cup {pCurrentItem}, m.desc, m.bitmap,
                          m.found \/ pCurrentItem \notin m.legit)
             m2 == IF FloodsOnWalk(t, pCurrentItem)
                   THEN MarkIfNew(t, m1, pCurrentItem)
                   ELSE m1
         IN  MarkAncestors(t, m2, find_parent_of(t, pCurrentItem))

\* FIND_LEGIT_ITEMS_VISITOR::visit_item with fMarkingDescendantsLegit clear
FindLegitVisit(t, lv, m, item) ==
    IF item \in m.legit THEN VisitLegitItem(t, m, item)
    ELSE IF IsCandidate(t, lv, m, item) THEN MarkAncestors(t, m, item)
    ELSE m

RECURSIVE FindLegitApply(_, _, _, _, _)
\* fliv.apply_to(&pFunction->body, NULL): the visits in pre-order
FindLegitApply(t, lv, m, order, i) ==
    IF i > Len(order) THEN m
    ELSE FindLegitApply(t, lv, FindLegitVisit(t, lv, m, order[i]), order, i + 1)

\* Initialize() that zero-fills the array instead of copying is_arg_var()
InitialBitmap_Zeroed(lv) == [i \in DOMAIN lv |-> FALSE]

\* FIND_LEGIT_ITEMS_VISITOR::Initialize after a successful malloc
InitialBitmap(lv) == [i \in DOMAIN lv |-> lv[i].is_arg]


----------------------------------------------------------------------------
(* PRUNE_ITEMS_VISITOR *)

\* an erase that leaves the block as it is
EraseChild_Nothing(t, block, child) == t

\* cblock_t::erase: unlink one child of the block and free it
EraseChild(t, block, child) ==
    [Free(t, SubtreeOf(t, child))
        EXCEPT ![block].kids = SelectSeq(@, LAMBDA k : k # child)]

\* a cleanup that deletes the children and keeps the item type
cleanup_KeepsOp(t, item) ==
    [Free(t, SubtreeOf(t, item) \ {item}) EXCEPT ![item].kids = <<>>]

\* cinsn_t::cleanup: delete the children, the item becomes cit_empty
cleanup(t, item) ==
    [Free(t, SubtreeOf(t, item) \ {item})
        EXCEPT ![item].op = "cit_empty", ![item].kids = <<>>,
               ![item].goto_label = NoLabel]

\* lines 1002-1009: a new cit_return with the goto's ea, label_num and index
\* is moved over the goto
replace_by_return(t, item) ==
    [t EXCEPT ![item].op = "cit_return", ![item].kids = <<>>,
              ![item].goto_label = NoLabel]

EmptyChildren(t, block) ==
    SelectSeq(t[block].kids,
              LAMBDA k : t[k].op = "cit_empty" \/ t[k].op = "cot_empty")

NeverCleanedUp(op) ==
    op \in {"cit_break", "cit_continue", "cit_goto", "cit_empty", "cot_empty",
            "cit_asm", "cit_return"}

\* a Pruning visit with cit_if among the kinds that are never cleaned up
PruningVisit_KeepsIf(t, legit, item) ==
    IF t[item].op = "cit_block"
    THEN IF EmptyChildren(t, item) # <<>> THEN "erase" ELSE "descend"
    ELSE IF NeverCleanedUp(t[item].op) \/ t[item].op = "cit_if" THEN "prune_now"
    ELSE IF item \in legit THEN "descend"
    ELSE IF is_expr(t[item].op) THEN "descend"
    ELSE "cleanup"

\* visit_item in Pruning mode (lines 750-833): what the visit of one item does.
\* "erase" and "cleanup" return 1, "prune_now" and "descend" return 0.
PruningVisit(t, legit, item) ==
    IF t[item].op = "cit_block"
    THEN IF EmptyChildren(t, item) # <<>> THEN "erase" ELSE "descend"
    ELSE IF NeverCleanedUp(t[item].op) THEN "prune_now"
    ELSE IF item \in legit THEN "descend"
    ELSE IF is_expr(t[item].op) THEN "descend"
    ELSE "cleanup"

RECURSIVE PruningApply(_, _, _)
\* piv.apply_to(&pFunction->body, NULL) in Pruning mode up to the visit that
\* returns 1; todo is the rest of the pre-order walk
PruningApply(t, legit, todo) ==
    IF todo = <<>> THEN [what |-> "nothing"]
    ELSE LET item == Head(todo)
             rest == Tail(todo)
             visit == PruningVisit(t, legit, item)
         IN  CASE visit = "erase" ->
                    [what |-> "erase", block |-> item,
                     child |-> Head(EmptyChildren(t, item))]
               [] visit = "cleanup" -> [what |-> "cleanup", item |-> item]
               [] visit = "prune_now" -> PruningApply(t, legit, rest)
               [] visit = "descend" ->
                    PruningApply(t, legit, t[item].kids \o rest)

\* visit_item in ChangingGotos mode (lines 977-1013).  With no new label the
\* goto is overwritten by a fresh cit_return (line 1009) and then cleanup()
\* is called on that same item (line 1010), which leaves it cit_empty.
ChangeGoto(t, item, nOld, nNew) ==
    IF ~ (t[item].op = "cit_goto" /\ t[item].goto_label = nOld) THEN t
    ELSE IF nNew # NoLabel THEN [t EXCEPT ![item].goto_label = nNew]
    ELSE cleanup(replace_by_return(t, item), item)

RECURSIVE ChangingGotosApply(_, _, _, _)
\* apply_to in ChangingGotos mode over the items of one walk
ChangingGotosApply(t, todo, nOld, nNew) ==
    IF todo = <<>> THEN t
    ELSE LET t1 == ChangeGoto(t, Head(todo), nOld, nNew)
         IN  ChangingGotosApply(t1, t1[Head(todo)].kids \o Tail(todo),
                                nOld, nNew)

RECURSIVE ParentBlock(_, _)
\* lines 861-867: the nearest cit_block strictly above the item
ParentBlock(t, item) ==
    LET pParent == find_parent_of(t, item)
    IN  IF pParent = NULL THEN NULL
        ELSE IF t[pParent].op = "cit_block" THEN pParent
        ELSE ParentBlock(t, pParent)

\* FindingChildrenOfParent mode (lines 960-972) over apply_to(pParent)
ChildrenOfParentBlock(t, pParent) == t[pParent].kids

RECURSIVE PickDestination(_, _, _, _, _)
\* lines 904-919: the first child with the smallest ea above the label's ea
PickDestination(t, children, i, ea, pNewDestination) ==
    IF i > Len(children) THEN pNewDestination
    ELSE IF ~ (t[children[i]].ea > ea)
    THEN PickDestination(t, children, i + 1, ea, pNewDestination)
    ELSE IF pNewDestination = NULL \/ t[children[i]].ea < t[pNewDestination].ea
    THEN PickDestination(t, children, i + 1, ea, children[i])
    ELSE PickDestination(t, children, i + 1, ea, pNewDestination)

RECURSIVE FindNewDestination(_, _, _)
\* lines 857-920: NULL when no enclosing block has a later child
FindNewDestination(t, item, pParent) ==
    LET block == ParentBlock(t, pParent)
    IN  IF block = NULL THEN NULL
        ELSE LET d == PickDestination(t, ChildrenOfParentBlock(t, block), 1,
                                      t[item].ea, NULL)
             IN  IF d # NULL THEN d ELSE FindNewDestination(t, item, block)

\* the first item of the walk that carries a label (line 843)
FirstLabelled(t, order) ==
    LET at == {i \in DOMAIN order : t[order[i]].label_num # NoLabel}
    IN  IF at = {} THEN NULL
        ELSE order[CHOOSE i \in at : \A j \in at : i <= j]

\* a relocation that moves the label and leaves it on the original item too
CleaningUpGotoLabels_KeepsOldLabel(t, root) ==
    LET item == FirstLabelled(t, SubtreeSeqOf(t, root))
        nOld == t[item].label_num
        pNewDestination == FindNewDestination(t, item, item)
    IN  IF item = NULL
        THEN [t |-> t, mode |-> "CleaningUpGotoLabels", cleaned |-> FALSE,
              nOld |-> NULL, nNew |-> NULL, set |-> FALSE]
        ELSE IF pNewDestination = NULL
        THEN [t |-> ChangingGotosApply(t, <<body>>, nOld, NoLabel),
              mode |-> "ChangingGotos", cleaned |-> TRUE,
              nOld |-> nOld, nNew |-> NoLabel, set |-> TRUE]
        ELSE IF t[pNewDestination].label_num # NoLabel
        THEN [t |-> ChangingGotosApply(t, <<body>>, nOld,
                                       t[pNewDestination].label_num),
              mode |-> "ChangingGotos", cleaned |-> TRUE,
              nOld |-> nOld, nNew |-> t[pNewDestination].label_num,
              set |-> TRUE]
        ELSE [t |-> [t EXCEPT ![pNewDestination].label_num = nOld],
              mode |-> "CleaningUpGotoLabels", cleaned |-> TRUE,
              nOld |-> nOld, nNew |-> NULL, set |-> FALSE]

\* One apply_to(pItem) of the relocation loop in CleaningUpGotoLabels mode
\* (lines 838-955): the outcome of the visit of the first labelled item
CleaningUpGotoLabels(t, root) ==
    LET item == FirstLabelled(t, SubtreeSeqOf(t, root))
        nOld == t[item].label_num
        pNewDestination == FindNewDestination(t, item, item)
    IN  IF item = NULL
        THEN [t |-> t, mode |-> "CleaningUpGotoLabels", cleaned |-> FALSE,
              nOld |-> NULL, nNew |-> NULL, set |-> FALSE]
        ELSE IF pNewDestination = NULL
        THEN [t |-> ChangingGotosApply(t, <<body>>, nOld, NoLabel),
              mode |-> "ChangingGotos", cleaned |-> TRUE,
              nOld |-> nOld, nNew |-> NoLabel, set |-> TRUE]
        ELSE IF t[pNewDestination].label_num # NoLabel
        THEN [t |-> ChangingGotosApply(t, <<body>>, nOld,
                                       t[pNewDestination].label_num),
              mode |-> "ChangingGotos", cleaned |-> TRUE,
              nOld |-> nOld, nNew |-> t[pNewDestination].label_num,
              set |-> TRUE]
        ELSE [t |-> [t EXCEPT ![pNewDestination].label_num = nOld,
                              ![item].label_num = NoLabel],
              mode |-> "CleaningUpGotoLabels", cleaned |-> TRUE,
              nOld |-> nOld, nNew |-> NULL, set |-> FALSE]


----------------------------------------------------------------------------
(* The explored functions: terms of statements and expressions, flattened  *)
(* into a ctree whose item identities are the pre-order positions          *)

Term(op, cs) ==
    [op |-> op, cs |-> cs, lab |-> NoLabel, tgt |-> NoLabel, v |-> 0, h |-> ""]

Var(v) == [Term("cot_var", <<>>) EXCEPT !.v = v]
Obj == Term("cot_obj", <<>>)
Num == Term("cot_num", <<>>)
EmptyExpr == Term("cot_empty", <<>>)
Helper(name) == [Term("cot_helper", <<>>) EXCEPT !.h = name]
Asg(x, y) == Term("cot_asg", <<x, y>>)
Call(x, args) == Term("cot_call", <<x>> \o args)

ExprStmt(e) == Term("cit_expr", <<e>>)
Goto(l) == [Term("cit_goto", <<>>) EXCEPT !.tgt = l]
Return(e) == Term("cit_return", <<e>>)
Block(stmts) == Term("cit_block", stmts)
If(e, ithen) == Term("cit_if", <<e, ithen>>)
While(e, b) == Term("cit_while", <<e, b>>)
For(init, e, step, b) == Term("cit_for", <<init, e, step, b>>)
Do(b, e) == Term("cit_do", <<b, e>>)
\* cswitch_t: the expression and, as one item, the statements of a case
Switch(e, b) == Term("cit_switch", <<e, b>>)
Labelled(l, stmt) == [stmt EXCEPT !.lab = l]

\* the local variables of the explored functions: the argument a, the locals
\* x and y and an exception record
InputLvars ==
    <<[name |-> "a", is_arg |-> TRUE, type |-> "int", used |-> TRUE],
      [name |-> "x", is_arg |-> FALSE, type |-> "int", used |-> TRUE],
      [name |-> "y", is_arg |-> FALSE, type |-> "int", used |-> TRUE],
      [name |-> "eh", is_arg |-> FALSE, type |-> "CPPEH_RECORD", used |-> TRUE]>>

\* lvar_t index (cexpr_t::v.idx) of a variable, counted from 1
IdxOf(name) == CHOOSE i \in DOMAIN InputLvars : InputLvars[i].name = name

ArgA == IdxOf("a")
LocX == IdxOf("x")
LocY == IdxOf("y")
LocEH == IdxOf("eh")

SeqsUpTo(S, n) == UNION {[1..k -> S] : k \in 0..n}

Labels == 1..MaxLabel

JunkStmt == ExprStmt(Asg(Var(LocX), Num))
CallStmt == ExprStmt(Call(Obj, <<>>))
EmptyStmt == Term("cit_empty", <<>>)

\* bodies without labels: x = 1; f(); x = a; y = x; return; ; if (x) {..}
\* and a while whose body is not a block
PlainStmts ==
    {JunkStmt, CallStmt,
     ExprStmt(Asg(Var(LocX), Var(ArgA))),
     ExprStmt(Asg(Var(LocY), Var(LocX))),
     Return(EmptyExpr),
     EmptyStmt,
     If(Var(LocX), Block(<<CallStmt>>)),
     While(Var(ArgA), JunkStmt)}

PlainBodies == SeqsUpTo(PlainStmts, MaxStmts)

\* bodies with gotos: the gotos come first, alone, under if (a) {..} or
\* under if (y) {..}
GotoParts ==
    {Goto(1), If(Var(LocY), Block(<<Goto(1)>>))}
    \cup {If(Var(ArgA), Block([i \in 1..k |-> Goto(i)])) : k \in 2..MaxLabel}

InnerStmts == {JunkStmt} \cup {Labelled(l, JunkStmt) : l \in Labels}

InnerIfs == {If(Var(LocX), Block(b)) : b \in SeqsUpTo(InnerStmts, MaxInner)}

\* a while whose body is one labelled statement, not a block
LabelledWhiles == {While(Var(ArgA), Labelled(l, JunkStmt)) : l \in Labels}

LabelStmts ==
    {JunkStmt, CallStmt, EmptyStmt}
    \cup InnerIfs
    \cup LabelledWhiles
    \cup {Labelled(l, s) : l \in Labels,
                           s \in {JunkStmt, CallStmt, EmptyStmt,
                                  If(Var(LocX), Block(<<JunkStmt>>))}}

RECURSIVE TermLabels(_)
\* the label numbers carried in the term, in pre-order
TermLabels(term) ==
    LET RECURSIVE Cat(_)
        Cat(i) == IF i > Len(term.cs) THEN <<>>
                  ELSE TermLabels(term.cs[i]) \o Cat(i + 1)
    IN  (IF term.lab = NoLabel THEN <<>> ELSE <<term.lab>>) \o Cat(1)

RECURSIVE TermGotos(_)
TermGotos(term) ==
    (IF term.op = "cit_goto" THEN {term.tgt} ELSE {})
    \cup UNION {TermGotos(term.cs[i]) : i \in DOMAIN term.cs}

\* what the decompiler hands over: every goto has its label, on one item,
\* and every label has a goto
WellLabelled(term) ==
    /\ Range(TermLabels(term)) = TermGotos(term)
    /\ Len(TermLabels(term)) = Cardinality(TermGotos(term))

LabelBodies ==
    {b \in {<<g>> \o r : g \in GotoParts,
                         r \in SeqsUpTo(LabelStmts, MaxStmts - 1)} :
        WellLabelled(Block(b))}

RECURSIVE TermSize(_)
TermSize(term) ==
    LET RECURSIVE Sum(_)
        Sum(i) == IF i > Len(term.cs) THEN 0 ELSE TermSize(term.cs[i]) + Sum(i + 1)
    IN  1 + Sum(1)

RECURSIVE Flatten(_, _)
\* the items of the term, the root first, identities counted from id
Flatten(term, id) ==
    LET RECURSIVE Before(_)
        Before(i) == IF i = 1 THEN id + 1
                     ELSE Before(i - 1) + TermSize(term.cs[i - 1])
        RECURSIVE Cat(_)
        Cat(i) == IF i > Len(term.cs) THEN <<>>
                  ELSE Flatten(term.cs[i], Before(i)) \o Cat(i + 1)
    IN  <<[op |-> term.op,
           kids |-> [i \in DOMAIN term.cs |-> Before(i)],
           label_num |-> term.lab,
           goto_label |-> term.tgt,
           v_idx |-> term.v,
           helper |-> term.h,
           ea |-> 0]>> \o Cat(1)

\* addresses: the decompiled code laid out in source order or in reverse
EaLayouts == {"ascending", "descending"}

WithEa(t, layout) ==
    [i \in DOMAIN t |->
        [t[i] EXCEPT !.ea = IF layout = "ascending" THEN i
                            ELSE Len(t) + 1 - i]]

InputTrees ==
    {WithEa(Flatten(Block(b), body), "ascending") : b \in PlainBodies}
    \cup {WithEa(Flatten(Block(b), body), layout) :
             b \in LabelBodies, layout \in EaLayouts}

\* statements in the body of a scenario function
MaxScenario == 2

\* x = LOBYTE(v): a macro of defs.h over one variable
MacroStmt(v) == ExprStmt(Asg(Var(LocX), Call(Helper("LOBYTE"), <<Var(v)>>)))

\* HIBYTE(e); a macro of defs.h over an expression, its value dropped
MacroOverStmt(e) == ExprStmt(Call(Helper("HIBYTE"), <<e>>))

\* __readfsdword(1): a helper that is no macro of defs.h
IntrinsicStmt == ExprStmt(Call(Helper("__readfsdword"), <<Num>>))

\* a helper for which print1 yields nothing
UnnamedStmt == ExprStmt(Call(Helper(""), <<>>))

AsmStmt == Term("cit_asm", <<>>)
BreakStmt == Term("cit_break", <<>>)
ContinueStmt == Term("cit_continue", <<>>)

\* for (v = 1; cond; y = 1) { }
ForStmts ==
    {For(Asg(Var(v), Num), cond, Asg(Var(LocY), Num), Block(<<>>)) :
        v \in {LocY, LocEH},
        cond \in {Var(ArgA), Var(LocX), Call(Obj, <<>>)}}

\* the scenarios of the marker: macros, helpers, inline assembly, for-loops,
\* the exception record in an expression statement and in a condition,
\* returns, an if and a do-while around a call, and one goto with its label
ScenarioStmts ==
    {MacroStmt(LocY), MacroStmt(ArgA), IntrinsicStmt, UnnamedStmt,
     Return(Num), AsmStmt, If(Var(LocX), Block(<<AsmStmt>>)),
     ExprStmt(Asg(Var(LocEH), Num)), While(Var(LocEH), Block(<<>>)),
     Return(Var(LocX)), If(Var(LocY), Block(<<CallStmt>>)),
     Do(Block(<<CallStmt>>), Var(LocX)),
     Goto(1), Labelled(1, JunkStmt)}
    \cup ForStmts

ScenarioBodies ==
    {b \in SeqsUpTo(ScenarioStmts, MaxScenario) : WellLabelled(Block(b))}

ScenarioTrees ==
    {WithEa(Flatten(Block(b), body), "ascending") : b \in ScenarioBodies}

\* the functions of macros and jumps: macros of defs.h over a junk local, an
\* argument, a global, a call and the exception record, in an expression
\* statement, in the condition of an if and in a return; a switch over a
\* local with a call in its case; a for-loop whose condition is a call; a
\* break and a continue in a while; a return; one goto with its label
MacroJumpStmts ==
    {MacroStmt(LocY), MacroStmt(ArgA),
     MacroOverStmt(Obj), MacroOverStmt(Call(Obj, <<>>)),
     MacroOverStmt(Var(LocEH)),
     If(Call(Helper("LOWORD"), <<Var(LocY)>>), Block(<<CallStmt>>)),
     Return(Call(Helper("LOBYTE"), <<Num>>)),
     Switch(Var(LocX), Block(<<CallStmt>>)),
     For(Asg(Var(LocY), Num), Call(Obj, <<>>), Asg(Var(LocY), Num),
         Block(<<>>)),
     While(Var(ArgA), Block(<<BreakStmt>>)),
     While(Var(LocX), Block(<<ContinueStmt, JunkStmt>>)),
     Return(Var(LocX)),
     Goto(1), Labelled(1, JunkStmt)}

MacroJumpBodies ==
    {b \in SeqsUpTo(MacroJumpStmts, MaxScenario) : WellLabelled(Block(b))}

MacroJumpTrees ==
    {WithEa(Flatten(Block(b), body), "ascending") : b \in MacroJumpBodies}

----------------------------------------------------------------------------
(* Detox() *)

NullBitmap == [allocated |-> FALSE, flags |-> <<>>]

\* the constructors of both visitors (lines 591-602 and 1030-1040)
NewVisitors ==
    /\ fInitialized = FALSE
    /\ afVariableIsLegit = NullBitmap
    /\ vectorLegitItems = {}
    /\ vectorDescendantsMarkedLegit = {}
    /\ fNewLegitItemFound = FALSE
    /\ visitingMode = "Pruning"
    /\ fPruned = FALSE
    /\ fGotoCleaned = FALSE
    /\ nOldLabelNumber = NoLabel
    /\ nNewLabelNumber = NoLabel
    /\ pItem = NULL

Init ==
    /\ pc = "marking"
    /\ run = 1
    /\ ctree \in InputTrees
    /\ lvars = InputLvars
    /\ NewVisitors
    /\ hist = [ctree0 |-> ctree, lvars0 |-> lvars,
               markPasses |-> 0, prunePasses |-> 0]

PrunerUnchanged ==
    UNCHANGED <<visitingMode, fPruned, fGotoCleaned, nOldLabelNumber,
                nNewLabelNumber, pItem>>

MarkerUnchanged ==
    UNCHANGED <<fInitialized, afVariableIsLegit, vectorLegitItems,
                vectorDescendantsMarkedLegit, fNewLegitItemFound>>

\* a marking pass that already clears the is-used flags of the variables it
\* has not marked yet
MarkPass_ClearsFlags ==
    /\ pc = "marking"
    /\ LET m0 == Marker(vectorLegitItems, vectorDescendantsMarkedLegit,
                        IF fInitialized THEN afVariableIsLegit.flags
                        ELSE InitialBitmap(lvars),
                        FALSE)
           m == FindLegitApply(ctree, lvars, m0, SubtreeSeqOf(ctree, body), 1)
       IN  /\ fInitialized' = TRUE
           /\ afVariableIsLegit' = [allocated |-> TRUE, flags |-> m.bitmap]
           /\ vectorLegitItems' = m.legit
           /\ vectorDescendantsMarkedLegit' = m.desc
           /\ fNewLegitItemFound' = m.found
           /\ pc' = IF m.found THEN "marking" ELSE "pruning"
           /\ hist' = [hist EXCEPT !.markPasses = @ + 1]
           /\ lvars' = [i \in DOMAIN lvars |->
                           IF ~ m.bitmap[i]
                           THEN [lvars[i] EXCEPT !.used = FALSE]
                           ELSE lvars[i]]
    /\ UNCHANGED <<visitingMode, fPruned, fGotoCleaned, nOldLabelNumber,
                   nNewLabelNumber, pItem>>
    /\ UNCHANGED <<run, ctree>>

\* One iteration of the marking loop (lines 626-632); Initialize() succeeds
\* on the first visit or has succeeded before
MarkPass ==
    /\ pc = "marking"
    /\ LET m0 == Marker(vectorLegitItems, vectorDescendantsMarkedLegit,
                        IF fInitialized THEN afVariableIsLegit.flags
                        ELSE InitialBitmap(lvars),
                        FALSE)
           m == FindLegitApply(ctree, lvars, m0, SubtreeSeqOf(ctree, body), 1)
       IN  /\ fInitialized' = TRUE
           /\ afVariableIsLegit' = [allocated |-> TRUE, flags |-> m.bitmap]
           /\ vectorLegitItems' = m.legit
           /\ vectorDescendantsMarkedLegit' = m.desc
           /\ fNewLegitItemFound' = m.found
           /\ pc' = IF m.found THEN "marking" ELSE "pruning"
           /\ hist' = [hist EXCEPT !.markPasses = @ + 1]
    /\ PrunerUnchanged
    /\ UNCHANGED <<run, ctree, lvars>>

\* The marking loop when malloc returns NULL in Initialize() (lines 566-572):
\* the first visit returns 1, the walk stops, nothing was found
MarkPassAllocFails ==
    /\ pc = "marking"
    /\ ~ fInitialized
    /\ fNewLegitItemFound' = FALSE
    /\ pc' = "pruning"
    /\ hist' = [hist EXCEPT !.markPasses = @ + 1]
    /\ PrunerUnchanged
    /\ UNCHANGED <<run, ctree, lvars, fInitialized, afVariableIsLegit,
                   vectorLegitItems, vectorDescendantsMarkedLegit>>

\* One iteration of the pruning loop (lines 1048-1054) up to the visit that
\* stops it; a statement to clean up leaves the visit inside its relocation
\* loop (line 815)
PrunePass ==
    /\ pc = "pruning"
    /\ LET r == PruningApply(ctree, vectorLegitItems, <<body>>)
       IN  CASE r.what = "nothing" ->
                  /\ fPruned' = FALSE
                  /\ pc' = "finalizing"
                  /\ UNCHANGED <<ctree, visitingMode, fGotoCleaned, pItem>>
             [] r.what = "erase" ->
                  /\ ctree' = EraseChild(ctree, r.block, r.child)
                  /\ fPruned' = TRUE
                  /\ pc' = "pruning"
                  /\ UNCHANGED <<visitingMode, fGotoCleaned, pItem>>
             [] r.what = "cleanup" ->
                  /\ pItem' = r.item
                  /\ visitingMode' = "CleaningUpGotoLabels"
                  /\ fGotoCleaned' = TRUE
                  /\ fPruned' = FALSE
                  /\ pc' = "relocating"
                  /\ UNCHANGED ctree
    /\ hist' = [hist EXCEPT !.prunePasses = @ + 1]
    /\ MarkerUnchanged
    /\ UNCHANGED <<run, lvars, nOldLabelNumber, nNewLabelNumber>>

\* One iteration of while (fGotoCleaned) (lines 817-823): apply_to(pItem) in
\* the mode the visitor is in
RelocateScan ==
    /\ pc = "relocating"
    /\ fGotoCleaned
    /\ IF visitingMode = "CleaningUpGotoLabels"
       THEN LET r == CleaningUpGotoLabels(ctree, pItem)
            IN  /\ ctree' = r.t
                /\ visitingMode' = r.mode
                /\ fGotoCleaned' = r.cleaned
                /\ nOldLabelNumber' = IF r.cleaned THEN r.nOld
                                      ELSE nOldLabelNumber
                /\ nNewLabelNumber' = IF r.set THEN r.nNew
                                      ELSE nNewLabelNumber
       ELSE /\ ctree' = ChangingGotosApply(ctree, <<pItem>>, nOldLabelNumber,
                                           nNewLabelNumber)
            /\ fGotoCleaned' = FALSE
            /\ UNCHANGED <<visitingMode, nOldLabelNumber, nNewLabelNumber>>
    /\ MarkerUnchanged
    /\ UNCHANGED <<pc, run, lvars, fPruned, pItem, hist>>

\* Lines 824-832: leave the relocation loop and clean the statement up
CleanupItem ==
    /\ pc = "relocating"
    /\ ~ fGotoCleaned
    /\ visitingMode' = "Pruning"
    /\ ctree' = cleanup(ctree, pItem)
    /\ fPruned' = TRUE
    /\ pItem' = NULL
    /\ pc' = "pruning"
    /\ MarkerUnchanged
    /\ UNCHANGED <<run, lvars, fGotoCleaned, nOldLabelNumber, nNewLabelNumber,
                   hist>>

\* a sweep whose test lacks the negation
ClearUnused_Inverted(lv, flags) ==
    [i \in DOMAIN lv |-> IF flags[i] THEN [lv[i] EXCEPT !.used = FALSE]
                         ELSE lv[i]]

\* clear_used() on the variables whose bitmap entry is false
ClearUnused(lv, flags) ==
    [i \in DOMAIN lv |-> IF ~ flags[i] THEN [lv[i] EXCEPT !.used = FALSE]
                         ELSE lv[i]]

\* The variable finalizer (lines 1060-1067).  After a failed Initialize()
\* afVariableIsLegit is NULL and the first read through it faults.
Finalize ==
    /\ pc = "finalizing"
    /\ IF ~ afVariableIsLegit.allocated /\ Len(lvars) > 0
       THEN /\ pc' = "crashed"
            /\ UNCHANGED lvars
       ELSE /\ pc' = "done"
            /\ lvars' = ClearUnused(lvars, afVariableIsLegit.flags)
    /\ MarkerUnchanged
    /\ PrunerUnchanged
    /\ UNCHANGED <<run, ctree, hist>>

\* Detox() is called again on the function it has returned (a refresh of the
\* pseudocode): both visitors are constructed anew
DetoxAgain ==
    /\ pc = "done"
    /\ run < MaxRuns
    /\ run' = run + 1
    /\ pc' = "marking"
    /\ fInitialized' = FALSE
    /\ afVariableIsLegit' = NullBitmap
    /\ vectorLegitItems' = {}
    /\ vectorDescendantsMarkedLegit' = {}
    /\ fNewLegitItemFound' = FALSE
    /\ visitingMode' = "Pruning"
    /\ fPruned' = FALSE
    /\ fGotoCleaned' = FALSE
    /\ nOldLabelNumber' = NoLabel
    /\ nNewLabelNumber' = NoLabel
    /\ pItem' = NULL
    /\ hist' = [ctree0 |-> ctree, lvars0 |-> lvars,
                markPasses |-> 0, prunePasses |-> 0]
    /\ UNCHANGED <<ctree, lvars>>

Next ==
    \/ MarkPass
    \/ MarkPassAllocFails
    \/ PrunePass
    \/ RelocateScan
    \/ CleanupItem
    \/ Finalize
    \/ DetoxAgain

Spec == Init /\ [][Next]_vars

\* Detox() on the scenario functions
ScenarioInit ==
    /\ pc = "marking"
    /\ run = 1
    /\ ctree \in ScenarioTrees
    /\ lvars = InputLvars
    /\ NewVisitors
    /\ hist = [ctree0 |-> ctree, lvars0 |-> lvars,
               markPasses |-> 0, prunePasses |-> 0]

ScenarioSpec == ScenarioInit /\ [][Next]_vars

\* Detox() on the functions of macros and jumps
MacroJumpInit ==
    /\ pc = "marking"
    /\ run = 1
    /\ ctree \in MacroJumpTrees
    /\ lvars = InputLvars
    /\ NewVisitors
    /\ hist = [ctree0 |-> ctree, lvars0 |-> lvars,
               markPasses |-> 0, prunePasses |-> 0]

MacroJumpSpec == MacroJumpInit /\ [][Next]_vars

----------------------------------------------------------------------------
(* Observations shared by the properties *)

GotosOf(t) == {n \in InTree(t) : t[n].op = "cit_goto"}

Carriers(t, l) == {n \in InTree(t) : t[n].label_num = l}

\* every goto of the tree targets a label carried by exactly one item
GotosHaveOneTarget(t) ==
    \A g \in GotosOf(t) : Cardinality(Carriers(t, t[g].goto_label)) = 1

Returned == pc = "done"

MarkingOver == pc \in {"pruning", "relocating", "finalizing", "done", "crashed"}

PruningOver == pc \in {"finalizing", "done", "crashed"}

AllocationFailed == MarkingOver /\ ~ afVariableIsLegit.allocated

StatementsIn(t) == {n \in InTree(t) : ~ is_expr(t[n].op)}

----------------------------------------------------------------------------
(* C1 *)

\* C1: label integrity.  When every goto of the input targets a label carried
\* by exactly one item, then after Detox every goto left in the tree targets a
\* label carried by exactly one item left in the tree, and every goto of the
\* input is still there as a goto or, in place, as a return.
C1_LabelIntegrity ==
    (Returned /\ GotosHaveOneTarget(hist.ctree0)) =>
        /\ GotosHaveOneTarget(ctree)
        /\ \A g \in GotosOf(hist.ctree0) :
              g \in InTree(ctree) /\ ctree[g].op \in {"cit_goto", "cit_return"}

----------------------------------------------------------------------------
(* C2 *)

\* C2: no item of the legitimacy set is removed from the tree by pruning,
\* neither directly nor below a removed statement.
C2_LegitItemsStay == vectorLegitItems \subseteq InTree(ctree)

----------------------------------------------------------------------------
(* C3 *)

\* C3 as stated: after Detox every item left in the tree is in the legitimacy
\* set computed by the marking.
C3_OnlyLegitItemsLeft == Returned => InTree(ctree) \subseteq vectorLegitItems

\* C3 amended: once the pruning loop has ended, every statement left in the
\* tree is in the legitimacy set, or is a block, or is of a kind the pruner
\* never cleans up (break, continue, goto, empty, asm, return).
C3_OnlyKeptStatementsLeft ==
    PruningOver =>
        \A n \in StatementsIn(ctree) :
            \/ n \in vectorLegitItems
            \/ ctree[n].op = "cit_block"
            \/ NeverCleanedUp(ctree[n].op)

\* a function returned with a statement cleaned up, a legitimate statement
\* kept and an item outside the legitimacy set left in the tree
C3_Witness ==
    /\ Returned
    /\ \E n \in StatementsIn(hist.ctree0) : n \notin InTree(ctree)
    /\ \E n \in StatementsIn(ctree) :
          n \in vectorLegitItems /\ ctree[n].op = "cit_expr"
    /\ \E n \in InTree(ctree) : n \notin vectorLegitItems


----------------------------------------------------------------------------
(* C4 *)

ArgumentsOf(lv) == {i \in DOMAIN lv : lv[i].is_arg}

\* C4: argument preservation.  The is-used flag of every argument variable is
\* set throughout and after Detox, and once the bitmap is initialized the
\* entry of every argument is true.
C4_ArgumentsStayUsed ==
    /\ \A i \in ArgumentsOf(lvars) : lvars[i].used
    /\ afVariableIsLegit.allocated =>
          \A i \in ArgumentsOf(lvars) : afVariableIsLegit.flags[i]

\* Detox returned for a body that never mentions the argument and with the
\* flag of a local variable cleared
C4_Witness ==
    /\ Returned
    /\ \A n \in InTree(hist.ctree0) :
          ~ (hist.ctree0[n].op = "cot_var" /\ hist.ctree0[n].v_idx = ArgA)
    /\ InTree(hist.ctree0) # {body}
    /\ ~ lvars[LocX].used
    /\ hist.lvars0[LocX].used

----------------------------------------------------------------------------
(* C5 *)

\* C5: idempotence.  A second Detox on the tree and the variables the first
\* one returned changes nothing: no item removed, no block child erased, no
\* label or goto changed, no is-used flag cleared.
C5_SecondRunChangesNothing ==
    run > 1 => ctree = hist.ctree0 /\ lvars = hist.lvars0

----------------------------------------------------------------------------
(* C6 *)

\* C6: when the allocation of the bitmap fails, Detox aborts without touching
\* the function: no pruning pass runs, the finalizer does not run, the tree
\* and the variables are as they were passed in.
C6_AllocationFailureAborts ==
    AllocationFailed =>
        /\ ctree = hist.ctree0
        /\ lvars = hist.lvars0
        /\ hist.prunePasses = 0
        /\ pc \notin {"relocating", "finalizing"}

----------------------------------------------------------------------------
(* C7 *)

\* C7: every pass of the marking loop but the last adds an item to the
\* legitimacy set, which only grows inside the finite set of the items, and
\* the loop is left after the first pass that adds none.
C7_MarkingPassesProgress ==
    [][pc = "marking" =>
          /\ vectorLegitItems \subseteq vectorLegitItems'
          /\ vectorLegitItems' \subseteq DOMAIN ctree
          /\ (pc' = "marking") <=> (vectorLegitItems' # vectorLegitItems)
          /\ (pc' = "pruning") <=> (vectorLegitItems' = vectorLegitItems)]_vars

\* the marking loop was left after three passes or more
C7_Witness == pc = "pruning" /\ hist.prunePasses = 0 /\ hist.markPasses >= 3

----------------------------------------------------------------------------
(* C8 *)

\* the statements of the tree, one more for each that is not empty: what the
\* pruning loop has left to delete
StatementWeight(t) ==
    Cardinality(StatementsIn(t))
    + Cardinality({n \in StatementsIn(t) : t[n].op # "cit_empty"})

RECURSIVE EaSum(_, _)
EaSum(t, items) ==
    IF items = {} THEN 0
    ELSE LET n == CHOOSE k \in items : TRUE
         IN  t[n].ea + EaSum(t, items \ {n})

\* the addresses of the items that carry a label: a label only moves forward
LabelledEaSum(t) == EaSum(t, {n \in InTree(t) : t[n].label_num # NoLabel})

\* C8: the pruning loop terminates, also when the statements it removes carry
\* labels.  Every pass that does not end the loop and every cleanup lowers
\* the weight of the statements left; the relocation loop of a statement goes
\* on only after a scan that moved a label to a higher address or switched
\* to ChangingGotos, and the scan after such a switch ends it; the carrier
\* search ends inside each scan.
C8_PruningTerminates ==
    [][/\ (pc = "pruning" /\ pc' = "pruning") =>
             StatementWeight(ctree') < StatementWeight(ctree)
       /\ (pc = "relocating" /\ pc' = "pruning") =>
             StatementWeight(ctree') < StatementWeight(ctree)
       /\ (pc = "pruning" /\ pc' = "relocating") => ctree' = ctree
       /\ (pc = "relocating" /\ pc' = "relocating") =>
             /\ StatementWeight(ctree') <= StatementWeight(ctree)
             /\ visitingMode = "ChangingGotos" => ~ fGotoCleaned'
             /\ fGotoCleaned' =>
                   \/ visitingMode' = "ChangingGotos"
                   \/ LabelledEaSum(ctree') > LabelledEaSum(ctree)]_vars

\* the pruning loop ended after a statement carrying a label was cleaned up
C8_Witness ==
    /\ pc = "finalizing"
    /\ nOldLabelNumber # NoLabel
    /\ \E n \in InTree(hist.ctree0) :
          hist.ctree0[n].label_num # NoLabel /\ n \notin InTree(ctree)

----------------------------------------------------------------------------
(* C9 *)

NodeCount == Cardinality(InTree(hist.ctree0))

\* C9: for a tree of N items the marking loop runs at most N passes and the
\* pruning loop runs at most N passes.
C9_PassCountBound ==
    hist.markPasses <= NodeCount /\ hist.prunePasses <= NodeCount

\* the pruning loop ended with its N-th pass on a body with statements
C9_Witness ==
    pc = "finalizing" /\ hist.prunePasses = NodeCount /\ NodeCount > 2

----------------------------------------------------------------------------
(* C10 *)

\* C10: stage order inside one invocation.  While the marking loop runs the
\* tree and the variables are not changed; an is-used flag changes only in
\* the finalizer, after the pruning loop; from the first pruning pass on the
\* legitimacy set and the bitmap are not changed.
C10_StageOrder ==
    [][/\ pc = "marking" => (ctree' = ctree /\ lvars' = lvars)
       /\ lvars' # lvars => (pc = "finalizing" /\ ~ fPruned)
       /\ pc \in {"pruning", "relocating", "finalizing"} =>
             /\ vectorLegitItems' = vectorLegitItems
             /\ afVariableIsLegit' = afVariableIsLegit]_vars

\* Detox returned after it pruned the tree and cleared a flag
C10_Witness ==
    /\ Returned
    /\ ctree # hist.ctree0
    /\ lvars # hist.lvars0
    /\ vectorLegitItems # {}

----------------------------------------------------------------------------
(* C11 *)

\* the calls of the tree whose callee is a helper
HelperCalls(t) ==
    {n \in InTree(t) : /\ t[n].op = "cot_call"
                       /\ t[t[n].kids[1]].op = "cot_helper"}

\* the classification of an expression by the name of the helper it calls
ClassifiedLegitimate(t, n) ==
    IF t[n].op # "cot_call" THEN FALSE
    ELSE IF n \notin HelperCalls(t) THEN TRUE
    ELSE /\ t[t[n].kids[1]].helper # ""
         /\ t[t[n].kids[1]].helper \notin aszNonLegitHelpers

\* C11: call classification.  IsLegitimateCall is false for an expression
\* that is no call, true for a call whose callee is no helper, and for a
\* helper callee false when the name cannot be rendered or is on the
\* deny-list and true for every other name.
C11_CallClassification ==
    \A n \in InTree(ctree) :
        IsLegitimateCall(ctree, n) = ClassifiedLegitimate(ctree, n)

\* the marking ended with a call of a deny-listed macro outside the
\* legitimacy set and a call of another helper inside it
C11_Witness ==
    /\ pc = "pruning"
    /\ afVariableIsLegit.allocated
    /\ \E n \in HelperCalls(ctree) :
          /\ ctree[ctree[n].kids[1]].helper \in aszNonLegitHelpers
          /\ n \notin vectorLegitItems
    /\ \E n \in HelperCalls(ctree) :
          /\ ctree[ctree[n].kids[1]].helper = "__readfsdword"
          /\ n \in vectorLegitItems

----------------------------------------------------------------------------
(* C12 *)

VarsIn(t, root) == {n \in SubtreeOf(t, root) : t[n].op = "cot_var"}

\* the variables a set of items refers to
IdxOf_Vars(t, items) == {t[n].v_idx : n \in items}

\* an expression statement that assigns the call of a deny-listed macro over
\* non-argument locals to a non-argument local
IsMacroAssignment(t, lv, stmt) ==
    /\ t[stmt].op = "cit_expr"
    /\ LET e == t[stmt].kids[1]
       IN  /\ t[e].op = "cot_asg"
           /\ t[t[e].kids[1]].op = "cot_var"
           /\ t[e].kids[2] \in HelperCalls(t)
           /\ t[t[t[e].kids[2]].kids[1]].helper \in aszNonLegitHelpers
           /\ \A i \in IdxOf_Vars(t, VarsIn(t, stmt)) : ~ lv[i].is_arg

\* the body is solely such an assignment followed by a return that reads
\* no variable
IsScenarioA(t, lv) ==
    /\ Len(t[body].kids) = 2
    /\ IsMacroAssignment(t, lv, t[body].kids[1])
    /\ t[t[body].kids[2]].op = "cit_return"
    /\ VarsIn(t, t[body].kids[2]) = {}

\* C12: scenario A.  For a body that is solely x = MACRO(y); return 0; Detox
\* removes both statements, clears the is-used flags of x and y and leaves
\* an empty body.
C12_ScenarioA ==
    (Returned /\ IsScenarioA(hist.ctree0, hist.lvars0)) =>
        /\ ctree[body].kids = <<>>
        /\ \A i \in IdxOf_Vars(hist.ctree0, VarsIn(hist.ctree0, body)) :
              ~ lvars[i].used

----------------------------------------------------------------------------
(* C13 *)

\* the non-argument locals of the exception-record type
ExceptionRecords(lv) ==
    {i \in DOMAIN lv : lv[i].type = "CPPEH_RECORD" /\ ~ lv[i].is_arg}

\* the statements with a reference to the variable beneath them
StatementsReferring(t, i) ==
    {n \in StatementsIn(t) : i \in IdxOf_Vars(t, VarsIn(t, n))}

\* C13: scenario C.  A local of the exception-record type keeps its is-used
\* flag through Detox, referenced or not, and every statement that refers to
\* it is still in the tree afterwards.
C13_ExceptionRecordKept ==
    Returned =>
        \A i \in ExceptionRecords(hist.lvars0) :
            /\ hist.lvars0[i].used => lvars[i].used
            /\ StatementsReferring(hist.ctree0, i) \subseteq InTree(ctree)

----------------------------------------------------------------------------
(* C14 *)

RECURSIVE IsSubseq(_, _)
\* s is t with some elements left out
IsSubseq(s, t) ==
    IF s = <<>> THEN TRUE
    ELSE IF t = <<>> THEN FALSE
    ELSE IF Head(s) = Head(t) THEN IsSubseq(Tail(s), Tail(t))
    ELSE IsSubseq(s, Tail(t))

BlocksIn(t) == {n \in InTree(t) : t[n].op = "cit_block"}

\* the positions of a block where an empty statement stands between two
\* statements of the legitimacy set
Sandwiched(t, legit, b) ==
    {j \in 2..(Len(t[b].kids) - 1) :
        /\ t[t[b].kids[j]].op = "cit_empty"
        /\ t[b].kids[j - 1] \in legit /\ t[t[b].kids[j - 1]].op # "cit_empty"
        /\ t[b].kids[j + 1] \in legit /\ t[t[b].kids[j + 1]].op # "cit_empty"}

\* C14: scenario D and order preservation.  The children a block is left
\* with are children it had, in the order they had; and where an empty
\* statement stood between two legitimate statements, Detox has erased the
\* empty statement and left the two others in the block.
C14_OrderPreserved ==
    /\ \A b \in BlocksIn(ctree) :
          IsSubseq(ctree[b].kids, hist.ctree0[b].kids)
    /\ Returned =>
          \A b \in BlocksIn(hist.ctree0) :
              \A j \in Sandwiched(hist.ctree0, vectorLegitItems, b) :
                  /\ b \in BlocksIn(ctree)
                  /\ hist.ctree0[b].kids[j] \notin Range(ctree[b].kids)
                  /\ hist.ctree0[b].kids[j - 1] \in Range(ctree[b].kids)
                  /\ hist.ctree0[b].kids[j + 1] \in Range(ctree[b].kids)

----------------------------------------------------------------------------
(* C15 *)

\* the marking loop has ended with an allocated bitmap and no pruning pass
\* has run yet
MarkingFixedPoint == pc = "pruning" /\ hist.prunePasses = 0 /\ fInitialized

RECURSIVE Ancestors(_, _)
\* the items on the path from the parent of the item to the body
Ancestors(t, item) ==
    LET pParent == find_parent_of(t, item)
    IN  IF pParent = NULL THEN {} ELSE {pParent} \cup Ancestors(t, pParent)

AsmStatements(t) == {n \in InTree(t) : t[n].op = "cit_asm"}

\* C15: inline assembly is a candidate.  At the marking fixed point every
\* inline-assembly statement and each of its ancestors is in the legitimacy
\* set, and after Detox every inline-assembly statement is still in the tree.
C15_AsmIsCandidate ==
    /\ MarkingFixedPoint =>
          \A n \in AsmStatements(ctree) :
              {n} \cup Ancestors(ctree, n) \subseteq vectorLegitItems
    /\ (Returned /\ fInitialized) =>
          AsmStatements(hist.ctree0) \subseteq InTree(ctree)

----------------------------------------------------------------------------
(* C16 *)

\* the items of the subtrees are in the legitimacy set and the variables
\* they refer to have their bitmap entry set
FloodMarked(t, roots) ==
    \A r \in roots :
        /\ SubtreeOf(t, r) \subseteq vectorLegitItems
        /\ \A i \in IdxOf_Vars(t, VarsIn(t, r)) : afVariableIsLegit.flags[i]

LegitStatements(t, ops) ==
    {n \in InTree(t) : t[n].op \in ops /\ n \in vectorLegitItems}

\* cfor_t: init, expr, step, body
ForInit(t, n) == t[n].kids[1]
ForStep(t, n) == t[n].kids[3]

\* C16: at the marking fixed point the init and the step expression of every
\* for-loop of the legitimacy set are flood-marked, whatever the condition of
\* the loop is.
C16_ForInitStepMarked ==
    MarkingFixedPoint =>
        \A n \in LegitStatements(ctree, {"cit_for"}) :
            FloodMarked(ctree, {ForInit(ctree, n), ForStep(ctree, n)})

----------------------------------------------------------------------------
(* C17 *)

\* cif_t::expr, cfor_t::expr, cwhile_t::expr, cdo_t::expr, creturn_t::expr
ExprOf(t, n) ==
    CASE t[n].op \in {"cit_if", "cit_while", "cit_return"} -> t[n].kids[1]
      [] t[n].op \in {"cit_for", "cit_do"} -> t[n].kids[2]

Governed == {"cit_if", "cit_for", "cit_while", "cit_do", "cit_return"}

\* C17: at the marking fixed point the governing expression of every if,
\* for, while, do-while and return of the legitimacy set is flood-marked.
C17_GoverningExpressionMarked ==
    MarkingFixedPoint =>
        \A n \in LegitStatements(ctree, Governed) :
            FloodMarked(ctree, {ExprOf(ctree, n)})

\* the fixed point of a body with a legitimate do-while whose condition reads
\* a local that is neither an argument nor an exception record
C17_Witness ==
    /\ MarkingFixedPoint
    /\ \E n \in LegitStatements(ctree, {"cit_do"}) :
          /\ ctree[ExprOf(ctree, n)].op = "cot_var"
          /\ lvars[ctree[ExprOf(ctree, n)].v_idx].type = "int"
          /\ ~ lvars[ctree[ExprOf(ctree, n)].v_idx].is_arg
    /\ LegitStatements(ctree, {"cit_for", "cit_if", "cit_while",
                               "cit_return"}) # {}

----------------------------------------------------------------------------
(* C18 *)

\* the members of the marker as one record; the bitmap is the one
\* Initialize() builds when no visit has run yet
CurrentMarker ==
    Marker(vectorLegitItems, vectorDescendantsMarkedLegit,
           IF fInitialized THEN afVariableIsLegit.flags
           ELSE InitialBitmap(lvars),
           fNewLegitItemFound)

\* an expression statement, a legitimate call or a return
WholeSubtreeKind(t, n) ==
    \/ t[n].op \in {"cit_expr", "cit_return"}
    \/ ClassifiedLegitimate(t, n)

\* the item and its ancestors are in the set, and those of them that are an
\* expression statement, a legitimate call or a return have their subtree in
\* the set and the bitmap entries of its variables set
PathClosed(t, m, n) ==
    /\ {n} \cup Ancestors(t, n) \subseteq m.legit
    /\ \A p \in {n} \cup Ancestors(t, n) :
          WholeSubtreeKind(t, p) =>
              /\ SubtreeOf(t, p) \subseteq m.legit
              /\ \A i \in IdxOf_Vars(t, VarsIn(t, p)) : m.bitmap[i]

\* the marking loop is running or has just ended; nothing is pruned yet
Marking == pc = "marking" \/ (pc = "pruning" /\ hist.prunePasses = 0)

\* C18: closure under parent.  The visit of a candidate leaves the candidate
\* and its ancestors up to the body in the legitimacy set, with the subtree
\* of every expression statement, legitimate call and return on that path
\* flood-marked; after every pass, and so at the fixed point, this holds for
\* every item of the set, and at the fixed point for every candidate.
C18_ClosedUnderParent ==
    /\ pc = "marking" =>
          \A c \in InTree(ctree) :
              IsCandidate(ctree, lvars, CurrentMarker, c) =>
                  PathClosed(ctree,
                             FindLegitVisit(ctree, lvars, CurrentMarker, c), c)
    /\ Marking =>
          \A n \in vectorLegitItems : PathClosed(ctree, CurrentMarker, n)
    /\ MarkingFixedPoint =>
          \A c \in InTree(ctree) :
              IsCandidate(ctree, lvars, CurrentMarker, c) =>
                  c \in vectorLegitItems

\* a fixed point reached in three passes or more with a local that became
\* legitimate by the flood-marking of an expression statement
C18_Witness ==
    /\ MarkingFixedPoint
    /\ hist.markPasses >= 3
    /\ \E n \in vectorLegitItems :
          /\ ctree[n].op = "cot_var"
          /\ ~ lvars[ctree[n].v_idx].is_arg
          /\ lvars[ctree[n].v_idx].type = "int"
          /\ \E p \in Ancestors(ctree, n) : ctree[p].op = "cit_expr"

----------------------------------------------------------------------------
(* C19 *)

\* the relocation loop of the statement has ended, cleanup() is next
CleanupIsNext == pc = "relocating" /\ ~ fGotoCleaned

LabelledIn(t, root) == {n \in SubtreeOf(t, root) : t[n].label_num # NoLabel}

\* C19: when the cleanup of a statement executes, the relocation has left no
\* label on the statement or beneath it.
C19_NoLabelAtCleanup == CleanupIsNext => LabelledIn(ctree, pItem) = {}

----------------------------------------------------------------------------
(* C20 *)

\* a scan of the relocation loop that finds a labelled item
ScanFindsLabel ==
    /\ pc = "relocating" /\ fGotoCleaned
    /\ visitingMode = "CleaningUpGotoLabels"
    /\ LabelledIn(ctree, pItem) # {}

\* the direct children of the block at an address above the item's
LaterChildren(t, b, item) == {k \in Range(t[b].kids) : t[k].ea > t[item].ea}

\* the enclosing blocks of the item that have such a child
BlocksWithCarrier(t, item) ==
    {b \in Ancestors(t, item) :
        t[b].op = "cit_block" /\ LaterChildren(t, b, item) # {}}

\* the nearest of them
NearestBlockWithCarrier(t, item) ==
    CHOOSE b \in BlocksWithCarrier(t, item) :
        \A b2 \in BlocksWithCarrier(t, item) : b2 \in {b} \cup Ancestors(t, b)

\* its later child with the smallest address
CarrierOf(t, item) ==
    LET later == LaterChildren(t, NearestBlockWithCarrier(t, item), item)
    IN  CHOOSE k \in later : \A k2 \in later : t[k].ea <= t[k2].ea

GotosTo(t, l) == {g \in GotosOf(t) : t[g].goto_label = l}

\* what a scan does with the label of the item: the converted kind is what
\* the gotos to the label have become when no block has a carrier
RelocatedAsSelected(t, t2, item, converted) ==
    LET old == t[item].label_num
    IN  IF BlocksWithCarrier(t, item) = {}
        THEN \A g \in GotosTo(t, old) : t2[g].op \in converted
        ELSE LET k == CarrierOf(t, item)
             IN  /\ \A g \in GotosTo(t, old) :
                       /\ t2[g].op = "cit_goto"
                       /\ t2[g].goto_label = t2[k].label_num
                 /\ t2[k].label_num = IF t[k].label_num = NoLabel THEN old
                                      ELSE t[k].label_num

\* C20: carrier selection.  The label of a doomed item goes to the direct
\* child with the smallest address above the item's in the nearest enclosing
\* block that has such a child, and the gotos to the label are converted to
\* returns exactly when no enclosing block has one.
C20_CarrierSelection ==
    [][ScanFindsLabel =>
          RelocatedAsSelected(ctree, ctree',
                              FirstLabelled(ctree, SubtreeSeqOf(ctree, pItem)),
                              {"cit_return"})]_vars

\* the selection alone: the same with the converted gotos allowed to have
\* ended as empty statements
CarrierSelectedAsSearched ==
    [][ScanFindsLabel =>
          RelocatedAsSelected(ctree, ctree',
                              FirstLabelled(ctree, SubtreeSeqOf(ctree, pItem)),
                              {"cit_return", "cit_empty"})]_vars

----------------------------------------------------------------------------
(* C21 *)

\* the item whose label the scan relocates and the carrier the search of
\* lines 857-920 chooses for it
ScannedItem == FirstLabelled(ctree, SubtreeSeqOf(ctree, pItem))

ChosenCarrier == FindNewDestination(ctree, ScannedItem, ScannedItem)

\* C21: label move versus redirect.  When the chosen carrier has no label the
\* old label number goes to the carrier, the label of the original item
\* becomes -1 and no goto is removed or retargeted (the carrier, which may
\* be a goto itself, only gains the label); when the carrier has a label every
\* goto to the old label is redirected to the label of the carrier, which is
\* unchanged.  In both cases the gotos that reach the carrier afterwards are
\* those that reached the carrier or the original item before.
C21_MoveOrRedirect ==
    [][(ScanFindsLabel /\ ChosenCarrier # NULL) =>
          LET item == ScannedItem
              k == ChosenCarrier
              old == ctree[item].label_num
          IN  /\ IF ctree[k].label_num = NoLabel
                 THEN /\ ctree'[k].label_num = old
                      /\ ctree'[item].label_num = NoLabel
                      /\ GotosOf(ctree') = GotosOf(ctree)
                      /\ \A g \in GotosOf(ctree) :
                            ctree'[g].goto_label = ctree[g].goto_label
                 ELSE /\ \A g \in GotosTo(ctree, old) :
                            /\ ctree'[g].op = "cit_goto"
                            /\ ctree'[g].goto_label = ctree[k].label_num
                      /\ ctree'[k].label_num = ctree[k].label_num
              /\ GotosTo(ctree', ctree'[k].label_num)
                    = GotosTo(ctree, ctree[k].label_num)
                      \cup GotosTo(ctree, old)]_vars

\* the relocation of one statement has moved a label onto an item that had
\* none and has redirected gotos to the label of a carrier
C21_Witness ==
    /\ pc = "relocating"
    /\ nNewLabelNumber # NoLabel
    /\ \E n \in InTree(ctree) :
          /\ ctree[n].label_num # NoLabel
          /\ hist.ctree0[n].label_num = NoLabel
    /\ \E g \in GotosOf(ctree) :
          ctree[g].goto_label # hist.ctree0[g].goto_label

----------------------------------------------------------------------------
(* C22 *)

\* a step of the relocation loop that runs a traversal in ChangingGotos
\* mode: the one a scan starts over the body (lines 883 and 938) or the scan
\* that follows it over the doomed statement
ChangingGotosRuns ==
    /\ pc = "relocating" /\ fGotoCleaned
    /\ \/ visitingMode = "ChangingGotos"
       \/ ScanFindsLabel /\ visitingMode' = "ChangingGotos"

\* what a traversal with the old and the new label number has done to the
\* tree: the converted kinds are what a goto to the old label may have become
\* when there is no new label
ChangedExactly(t, t2, old, new, converted) ==
    /\ GotosTo(t2, old) = {}
    /\ \A g \in GotosTo(t, old) :
          /\ g \in InTree(t2)
          /\ find_parent_of(t2, g) = find_parent_of(t, g)
          /\ t2[g].ea = t[g].ea
          /\ t2[g].label_num = t[g].label_num
          /\ IF new # NoLabel
             THEN t2[g].op = "cit_goto" /\ t2[g].goto_label = new
             ELSE t2[g].op \in converted
    /\ \A n \in InTree(t) \ GotosTo(t, old) : t2[n] = t[n]

\* C22: a ChangingGotos traversal changes exactly the gotos to the recorded
\* old label.  Afterwards no goto targets the old label; with a new label
\* number each of them targets the new label; without one each of them has
\* become, in place, a return with the same address, label number and
\* position; every other item is unchanged.
C22_ChangingGotosFrame ==
    [][ChangingGotosRuns =>
          ChangedExactly(ctree, ctree', nOldLabelNumber', nNewLabelNumber',
                         {"cit_return"})]_vars

\* the frame alone: the same with the converted gotos allowed to have ended
\* as empty statements
GotosChangedAsWalked ==
    [][ChangingGotosRuns =>
          ChangedExactly(ctree, ctree', nOldLabelNumber', nNewLabelNumber',
                         {"cit_return", "cit_empty"})]_vars

----------------------------------------------------------------------------
(* C23 *)

\* the relocation loop is about to scan the doomed statement (line 820)
ScanIsNext == pc = "relocating" /\ fGotoCleaned

\* C23: mode discipline during relocation.  Every scan of the doomed
\* statement by the relocation loop runs in CleaningUpGotoLabels mode, also
\* after a ChangingGotos or FindingChildrenOfParent sub-traversal; the mode
\* is Pruning when the cleanup of the statement executes and at the start of
\* every pass of the pruning loop.
C23_ModeDiscipline ==
    [][/\ ScanIsNext => visitingMode = "CleaningUpGotoLabels"
       /\ CleanupIsNext => visitingMode' = "Pruning"
       /\ pc = "pruning" => visitingMode = "Pruning"]_vars

\* the modes outside the scans: the second and the third part of C23
ModeOutsideScans ==
    [][/\ CleanupIsNext => visitingMode' = "Pruning"
       /\ pc = "pruning" => visitingMode = "Pruning"]_vars

----------------------------------------------------------------------------
(* C24 *)

\* the break, continue, goto and return statements of the tree
JumpsIn(t, ops) == {n \in InTree(t) : t[n].op \in ops}

\* the statement is where it was, of the kind it was (a goto possibly a
\* return now), with everything beneath it as it was
KeptInPlace(t0, t, n) ==
    /\ n \in InTree(t)
    /\ find_parent_of(t, n) = find_parent_of(t0, n)
    /\ \/ t[n].op = t0[n].op
       \/ t0[n].op = "cit_goto" /\ t[n].op = "cit_return"
    /\ \A k \in SubtreeOf(t0, n) \ {n} : k \in InTree(t) /\ t[k] = t0[k]

\* C24: break, continue, goto and return statements are never removed.
\* After Detox every such statement of the initial tree is still in the tree
\* at its position, a goto possibly replaced in place by a return, and
\* nothing beneath it is deleted.
C24_JumpsKept ==
    (Returned /\ fInitialized) =>
        \A n \in JumpsIn(hist.ctree0, {"cit_break", "cit_continue",
                                        "cit_goto", "cit_return"}) :
            KeptInPlace(hist.ctree0, ctree, n)

\* the same for the break, continue and return statements alone
BreakContinueReturnKept ==
    (Returned /\ fInitialized) =>
        \A n \in JumpsIn(hist.ctree0, {"cit_break", "cit_continue",
                                        "cit_return"}) :
            KeptInPlace(hist.ctree0, ctree, n)

----------------------------------------------------------------------------
(* C25 *)

\* the items a step has taken out of the tree or turned into an empty
\* statement
Gone(t, t2) ==
    {n \in InTree(t) :
        \/ n \notin InTree(t2)
        \/ t[n].op # "cit_empty" /\ t2[n].op = "cit_empty"}

\* the topmost of them: one for each erase() or cleanup() that took effect
Deletions(t, t2) ==
    {n \in Gone(t, t2) : Ancestors(t, n) \cap Gone(t, t2) = {}}

\* what a pass from the root may delete: the first empty child of a block
\* and the statements outside the legitimacy set that are neither blocks nor
\* of a kind that is never cleaned up
Deletable(t, legit) ==
    {n \in InTree(t) :
        \/ t[n].op = "cit_block" /\ EmptyChildren(t, n) # <<>>
        \/ /\ ~ is_expr(t[n].op) /\ t[n].op # "cit_block"
           /\ ~ NeverCleanedUp(t[n].op) /\ n \notin legit}

\* the position of the item in the pre-order walk from the body
PreorderPos(t, n) ==
    CHOOSE i \in DOMAIN SubtreeSeqOf(t, body) : SubtreeSeqOf(t, body)[i] = n

\* the first of them on the walk from the root
FirstDeletable(t, legit) ==
    CHOOSE n \in Deletable(t, legit) :
        \A n2 \in Deletable(t, legit) : PreorderPos(t, n) <= PreorderPos(t, n2)

\* the traversal of a pass from the root: it ends the loop when there is
\* nothing to delete, and otherwise stops at the first block with an empty
\* child, erasing the first one, or at the first doomed statement, which the
\* cleanup at the end of its relocation loop turns into an empty statement
OneDeletionFromRoot ==
    /\ pc = "pruning" =>
          IF Deletable(ctree, vectorLegitItems) = {}
          THEN pc' = "finalizing" /\ ctree' = ctree /\ ~ fPruned'
          ELSE LET n == FirstDeletable(ctree, vectorLegitItems)
               IN  IF ctree[n].op = "cit_block"
                   THEN /\ pc' = "pruning" /\ fPruned'
                        /\ Deletions(ctree, ctree')
                              = {Head(EmptyChildren(ctree, n))}
                   ELSE /\ pc' = "relocating" /\ pItem' = n
                        /\ ctree' = ctree
    /\ CleanupIsNext =>
          /\ pc' = "pruning" /\ fPruned'
          /\ Deletions(ctree, ctree') = {pItem}

\* C25: restart discipline.  Each pass of the pruning loop performs at most
\* one structural deletion, the erase of the first empty child of one block
\* or the cleanup of one statement outside the legitimacy set, stops its
\* traversal right after it, and the next pass starts from the root again; a
\* pass without a deletion ends the loop.
C25_RestartDiscipline ==
    [][/\ OneDeletionFromRoot
       /\ ScanIsNext => Deletions(ctree, ctree') = {}]_vars

\* the same without the scans of the relocation loop
RestartsFromRoot == [][OneDeletionFromRoot]_vars

----------------------------------------------------------------------------
(* C26 *)

\* the members of the marker after the first k visits of a pass
AfterVisits(k) ==
    FindLegitApply(ctree, lvars,
                   Marker(vectorLegitItems, vectorDescendantsMarkedLegit,
                          CurrentMarker.bitmap, FALSE),
                   SubSeq(SubtreeSeqOf(ctree, body), 1, k), 1)

\* nothing leaves the set and no entry of the bitmap is cleared
Grown(m, m2) ==
    /\ m.legit \subseteq m2.legit
    /\ \A i \in DOMAIN m.bitmap : m.bitmap[i] => m2.bitmap[i]

\* C26: monotonic marking.  During the marking loop an item once added to
\* the legitimacy set is never removed and a bitmap entry once true never
\* becomes false: from visit to visit inside a pass, nested traversals
\* included, and from pass to pass.
C26_MonotonicMarking ==
    [][pc = "marking" =>
          /\ \A k \in 1..Len(SubtreeSeqOf(ctree, body)) :
                Grown(AfterVisits(k - 1), AfterVisits(k))
          /\ vectorLegitItems \subseteq vectorLegitItems'
          /\ (fInitialized /\ fInitialized') =>
                \A i \in DOMAIN lvars :
                    afVariableIsLegit.flags[i] => afVariableIsLegit'.flags[i]]_vars

\* the marking loop has ended after three passes or more with the bitmap
\* entries of two locals set by nested traversals
C26_Witness ==
    /\ MarkingFixedPoint
    /\ hist.markPasses >= 3
    /\ vectorDescendantsMarkedLegit # {}
    /\ Cardinality({i \in DOMAIN lvars :
                       ~ lvars[i].is_arg /\ afVariableIsLegit.flags[i]}) >= 2

----------------------------------------------------------------------------
(* C27 *)

\* the finalizer is about to sweep the variables with the bitmap the marking
\* has allocated
FinalizerIsNext == pc = "finalizing" /\ afVariableIsLegit.allocated

\* C27: the variable finalizer clears the is-used flag of exactly the
\* variables whose bitmap entry is false at the end of marking, the bitmap
\* being left alone by the pruning.  A variable whose entry is true keeps its
\* flag, no flag is set, no other attribute of a variable changes and no
\* item of the tree changes.
C27_FinalizerFrame ==
    [][/\ (MarkingOver /\ pc # "done") =>
             afVariableIsLegit' = afVariableIsLegit
       /\ FinalizerIsNext =>
             /\ ctree' = ctree
             /\ DOMAIN lvars' = DOMAIN lvars
             /\ \A i \in DOMAIN lvars :
                   /\ ~ afVariableIsLegit.flags[i] => ~ lvars'[i].used
                   /\ afVariableIsLegit.flags[i] =>
                         lvars'[i].used = lvars[i].used
                   /\ lvars'[i].used => lvars[i].used
                   /\ [lvars'[i] EXCEPT !.used = TRUE]
                         = [lvars[i] EXCEPT !.used = TRUE]]_vars

\* Detox has returned with the flag of one local cleared and the flag of
\* another local, whose entry is true, kept
C27_Witness ==
    /\ Returned
    /\ afVariableIsLegit.allocated
    /\ \E i \in DOMAIN lvars :
          /\ ~ lvars[i].is_arg
          /\ afVariableIsLegit.flags[i] /\ lvars[i].used
    /\ \E i \in DOMAIN lvars :
          /\ ~ afVariableIsLegit.flags[i]
          /\ hist.lvars0[i].used /\ ~ lvars[i].used

----------------------------------------------------------------------------
(* C28 *)

\* the calls of the macros on the deny-list
MacroCalls(t) ==
    {n \in HelperCalls(t) : t[t[n].kids[1]].helper \in aszNonLegitHelpers}

\* carglist_t: the items beneath the arguments of the call
ArgumentItems(t, n) ==
    UNION {SubtreeOf(t, t[n].kids[i]) : i \in 2..Len(t[n].kids)}

\* a reference to a variable with its bitmap entry set, a reference to a
\* global or a legitimate call
CandidateExpression(t, c) ==
    \/ t[c].op = "cot_var" /\ afVariableIsLegit.flags[t[c].v_idx]
    \/ t[c].op = "cot_obj"
    \/ ClassifiedLegitimate(t, c)

HasCandidateArgument(t, n) ==
    \E c \in ArgumentItems(t, n) : CandidateExpression(t, c)

\* the nearest statement above the expression
EnclosingStatement(t, n) ==
    CHOOSE p \in Ancestors(t, n) :
        /\ ~ is_expr(t[p].op)
        /\ \A q \in Ancestors(t, n) :
              ~ is_expr(t[q].op) => q \in {p} \cup Ancestors(t, p)

\* the expression lies in a subtree that the marker floods for another
\* reason: under a legitimate expression statement, return or call, or in
\* the governing expression, the init or the step of a legitimate statement
MarkedFromAbove(t, n) ==
    \E p \in {n} \cup Ancestors(t, n) :
        \/ p \in vectorLegitItems /\ WholeSubtreeKind(t, p)
        \/ \E st \in LegitStatements(t, Governed) : p = ExprOf(t, st)
        \/ \E st \in LegitStatements(t, {"cit_for"}) :
              p \in {ForInit(t, st), ForStep(t, st)}

\* C28: a call of a deny-listed macro becomes legitimate indirectly.  At the
\* marking fixed point the call and its enclosing statement are in the
\* legitimacy set whenever an argument subtree holds a candidate; and the
\* call is not in the set when no argument subtree holds one and nothing
\* else marks it.
C28_MacroIndirectlyLegit ==
    MarkingFixedPoint =>
        \A n \in MacroCalls(ctree) :
            /\ HasCandidateArgument(ctree, n) =>
                  {n, EnclosingStatement(ctree, n)} \subseteq vectorLegitItems
            /\ (~ HasCandidateArgument(ctree, n) /\ ~ MarkedFromAbove(ctree, n))
                  => n \notin vectorLegitItems

\* a fixed point with a macro call marked through a global in its argument
\* and another macro call left outside the legitimacy set
C28_Witness ==
    /\ MarkingFixedPoint
    /\ \E n \in MacroCalls(ctree) :
          /\ n \in vectorLegitItems
          /\ \E c \in ArgumentItems(ctree, n) : ctree[c].op = "cot_obj"
    /\ \E n \in MacroCalls(ctree) : n \notin vectorLegitItems

----------------------------------------------------------------------------
(* C29 *)

\* the variables whose is-used flag this invocation has cleared
ClearedByDetox == {i \in DOMAIN lvars : hist.lvars0[i].used /\ ~ lvars[i].used}

\* the references to variables left in the tree
VarRefs(t) == {n \in InTree(t) : t[n].op = "cot_var"}

\* C29: no surviving use of a dead variable.  After Detox no reference to a
\* variable left in the tree refers to a variable whose is-used flag the
\* invocation has cleared.
C29_NoUseOfDeadVariable ==
    Returned => \A n \in VarRefs(ctree) : ctree[n].v_idx \notin ClearedByDetox

\* the same for the functions without a for-loop and without a switch
NoUseOfDeadVariableElsewhere ==
    (Returned /\ JumpsIn(hist.ctree0, {"cit_for", "cit_switch"}) = {}) =>
        \A n \in VarRefs(ctree) : ctree[n].v_idx \notin ClearedByDetox

====
